---- MODULE Spec2Model ----
(***************************************************************************)
(* Federated-learning round coordinator (server.py) and hot-reload         *)
(* inference program (inference.py).  The two processes share only the     *)
(* checkpoint files under save_dir: model_round_<r>.pt and model_latest.pt. *)
(***************************************************************************)
EXTENDS Integers, Sequences, FiniteSets, TLC

\* ------------------------------------------------------------------ bounds
MaxRounds == 3        \* --rounds values explored: 1..MaxRounds
NChunks == 2          \* write calls torch.save needs for one payload
MaxReconnects == 3    \* failed frame reads explored per run
NumClasses == 3       \* classes explored, of the 10 the model has
ProbScale == 4        \* probabilities and thresholds are multiples of 1/ProbScale
MaxSamples == 3       \* samples in an evaluation set
MaxUpdates == 3       \* entries passed to weighted_average
MaxExamples == 2      \* num_examples of one entry
MaxAccuracy == 2      \* accuracy values explored for one entry

\* ------------------------------------------------------- program constants
MinClients == 2       \* --min_num_clients default
InitialWeights == 0   \* weights of a freshly constructed mobilenet_v3_small
None == 0             \* ModelManager.last_modified before the first load

VARIABLES
    \* coordinator (server.py)
    rounds,           \* args.rounds
    server_round,     \* round number the framework passes to aggregate_fit
    srv_pc,           \* position of the coordinator
    results,          \* number of client results passed to aggregate_fit
    eval_failed,      \* rounds whose evaluation raised
    save_idx,         \* index in SaveOrder of the torch.save in progress
    srv_error,        \* exception that ended the coordinator, or "none"
    saved,            \* rounds announced "Saved aggregated model for round r"
    published,        \* rounds announced "Saved latest model"
    \* file system
    round_files,      \* model_round_<r>.pt
    latest,           \* model_latest.pt
    \* inference program (inference.py)
    entry,            \* "none", "main" (main()) or "direct" (classes used directly)
    inf_pc,           \* position of the inference program
    file_at_start,    \* FileStatus of the model file when main started
    last_modified,    \* ModelManager.last_modified
    current_modified, \* load_model's local current_modified
    model_round,      \* round whose weights ModelManager.model holds
    observed,         \* what the last torch.load read from the model file
    loads,            \* rounds announced "Model loaded successfully"
    cap_id,           \* VideoCapture object currently bound to cap (0: none)
    cap_opened,       \* cap.isOpened()
    released,         \* VideoCapture objects on which release() was called
    reconnects,       \* reconnect attempts so far
    loop_started,     \* run_inference entered its while loop
    interrupted,      \* a KeyboardInterrupt was delivered
    inf_error,        \* exception that ended the inference program, or "none"
    exit_code,        \* value main returned (-1: main has not returned)
    \* functions called on their own
    call              \* the last such call: [fn, input, output]

srv_vars == <<rounds, server_round, srv_pc, results, eval_failed, save_idx,
              srv_error, saved, published>>
fs_vars == <<round_files, latest>>
inf_vars == <<entry, inf_pc, file_at_start, last_modified, current_modified,
              model_round, observed, loads, cap_id, cap_opened, released,
              reconnects, loop_started, interrupted, inf_error, exit_code>>
vars == <<srv_vars, fs_vars, inf_vars, call>>

\* ------------------------------------------------------------- checkpoints
\* Metrics returned by test(model, ...) for a model holding weights w.
Test(w) == [evaluated |-> w]

\* The dictionary both torch.save calls serialise for round r.
Checkpoint(r) ==
    [round |-> r, model_state_dict |-> r, metrics |-> Test(InitialWeights)]

NoPayload == [round |-> 0, model_state_dict |-> 0, metrics |-> Test(InitialWeights)]
NoRoundFile == [exists |-> FALSE, written |-> 0, payload |-> NoPayload]
NoLatestFile == [exists |-> FALSE, written |-> 0, payload |-> NoPayload, mtime |-> 0]

\* A file holds a whole serialised payload once every chunk is written.
Complete(f) == f.exists /\ f.written = NChunks

\* The bytes a read of file f returns.
Read(f) == [exists |-> f.exists, written |-> f.written, payload |-> f.payload]

\* What a process finds at a path: nothing, part of a payload, or all of it.
FileStatus(f) ==
    IF ~f.exists THEN "missing" ELSE IF f.written = NChunks THEN "complete" ELSE "partial"

\* Order of the two torch.save calls in aggregate_fit.
SaveOrderLatestFirst == <<"latest", "round">>
SaveOrder == <<"round", "latest">>

Target == SaveOrder[save_idx]

NoCall == [fn |-> "none", input |-> <<>>, output |-> <<>>]

ProgramInit ==
    /\ rounds \in 1..MaxRounds
    /\ server_round = 0
    /\ srv_pc = "waiting"
    /\ results = 0
    /\ eval_failed = {}
    /\ save_idx = 1
    /\ srv_error = "none"
    /\ saved = <<>>
    /\ published = <<>>
    /\ round_files = [r \in 1..MaxRounds |-> NoRoundFile]
    /\ latest = NoLatestFile
    /\ entry = "none"
    /\ inf_pc = "idle"
    /\ file_at_start = "missing"
    /\ last_modified = None
    /\ current_modified = None
    /\ model_round = InitialWeights
    /\ observed = NoRoundFile
    /\ loads = <<>>
    /\ cap_id = 0
    /\ cap_opened = FALSE
    /\ released = {}
    /\ reconnects = 0
    /\ loop_started = FALSE
    /\ interrupted = FALSE
    /\ inf_error = "none"
    /\ exit_code = -1

Init ==
    /\ ProgramInit
    /\ call = NoCall

\* ------------------------------------------------------------- coordinator
\* The framework's round loop calls aggregate_fit(server_round, results,
\* failures) once per round, with the next round number each time; of the
\* min_fit_clients clients it samples, any number return a result.
FitRound ==
    /\ srv_pc = "waiting"
    /\ server_round < rounds
    /\ results' \in 0..MinClients
    /\ server_round' = server_round + 1
    /\ srv_pc' = "aggregated"
    /\ UNCHANGED <<rounds, eval_failed, save_idx, srv_error, saved, published>>
    /\ UNCHANGED <<fs_vars, inf_vars>>
    /\ UNCHANGED call

\* super().aggregate_fit: FedAvg yields no parameters when results is empty.
AggregatedParametersIsNone == results = 0

\* aggregated_parameters is None: return without evaluating or saving.
ReturnNone ==
    /\ srv_pc = "aggregated"
    /\ AggregatedParametersIsNone
    /\ srv_pc' = "waiting"
    /\ UNCHANGED <<rounds, server_round, results, eval_failed, save_idx,
                   srv_error, saved, published>>
    /\ UNCHANGED <<fs_vars, inf_vars>>
    /\ UNCHANGED call

\* prepare_test_dataset() and test(model, ...): either may raise, and the
\* exception leaves aggregate_fit before any torch.save.
Evaluate ==
    /\ srv_pc = "aggregated"
    /\ ~AggregatedParametersIsNone
    /\ \/ /\ srv_pc' = "open"
          /\ save_idx' = 1
          /\ UNCHANGED <<eval_failed, srv_error>>
       \/ /\ srv_pc' = "crashed"
          /\ srv_error' = "EvaluationError"
          /\ eval_failed' = eval_failed \cup {server_round}
          /\ UNCHANGED save_idx
    /\ UNCHANGED <<rounds, server_round, results, saved, published>>
    /\ UNCHANGED <<fs_vars, inf_vars>>
    /\ UNCHANGED call

\* torch.save opens its target for writing: the file is created or truncated.
OpenForWrite ==
    /\ srv_pc = "open"
    /\ srv_pc' = "write"
    /\ IF Target = "round"
          THEN /\ round_files' = [round_files EXCEPT ![server_round] =
                     [exists |-> TRUE, written |-> 0,
                      payload |-> Checkpoint(server_round)]]
               /\ UNCHANGED latest
          ELSE /\ latest' = [exists |-> TRUE, written |-> 0,
                             payload |-> Checkpoint(server_round),
                             mtime |-> latest.mtime + 1]
               /\ UNCHANGED round_files
    /\ UNCHANGED <<rounds, server_round, results, eval_failed, save_idx,
                   srv_error, saved, published>>
    /\ UNCHANGED inf_vars
    /\ UNCHANGED call

\* torch.save writes the next part of the payload in place; after the last
\* part the save is announced and aggregate_fit moves on.
WriteChunk ==
    /\ srv_pc = "write"
    /\ IF Target = "round"
          THEN /\ round_files' = [round_files EXCEPT ![server_round].written = @ + 1]
               /\ UNCHANGED latest
          ELSE /\ \E tick \in {0, 1} :
                     latest' = [latest EXCEPT !.written = @ + 1,
                                              !.mtime = @ + tick]
               /\ UNCHANGED round_files
    /\ LET done == (IF Target = "round" THEN round_files'[server_round].written
                                        ELSE latest'.written) = NChunks
       IN  /\ saved' = IF done /\ Target = "round"
                          THEN Append(saved, server_round) ELSE saved
           /\ published' = IF done /\ Target = "latest"
                              THEN Append(published, server_round) ELSE published
           /\ IF ~done
                 THEN /\ srv_pc' = "write"
                      /\ UNCHANGED save_idx
                 ELSE IF save_idx < Len(SaveOrder)
                         THEN /\ srv_pc' = "open"
                              /\ save_idx' = save_idx + 1
                         ELSE /\ srv_pc' = "waiting"
                              /\ save_idx' = 1
    /\ UNCHANGED <<rounds, server_round, results, eval_failed, srv_error>>
    /\ UNCHANGED inf_vars
    /\ UNCHANGED call

\* torch.save raises (disk full, permission denied): the exception leaves
\* aggregate_fit and whatever was written so far stays on disk.
StorageFail ==
    /\ srv_pc \in {"open", "write"}
    /\ srv_pc' = "crashed"
    /\ srv_error' = "StorageWriteError"
    /\ UNCHANGED <<rounds, server_round, results, eval_failed, save_idx,
                   saved, published>>
    /\ UNCHANGED <<fs_vars, inf_vars>>
    /\ UNCHANGED call

\* ------------------------------------------------------- inference program
\* load_model's test for "the file changed since the last load".
ModelChangedFirstLoadOnly(lm, cm) == lm = None
ModelChangedAlways(lm, cm) == TRUE
ModelChanged(lm, cm) == lm # cm

\* An exception leaving run_inference's try block runs the finally block:
\* cap.release(), then the exception propagates.
RaiseInLoopNoFinally(err) ==
    /\ inf_pc' = "raised"
    /\ inf_error' = err
    /\ UNCHANGED released

RaiseInLoop(err) ==
    /\ inf_pc' = "raised"
    /\ inf_error' = err
    /\ released' = released \cup {cap_id}

\* An exception leaving ModelManager.__init__ propagates to the caller.
RaiseInCtor(err) ==
    /\ inf_pc' = "raised"
    /\ inf_error' = err
    /\ UNCHANGED released

\* main(): parse_args, then the try block begins.
StartMain ==
    /\ inf_pc = "idle"
    /\ inf_pc' = "main_try"
    /\ entry' = "main"
    /\ file_at_start' = FileStatus(latest)
    /\ UNCHANGED <<last_modified, current_modified, model_round, observed, loads,
                   cap_id, cap_opened, released, reconnects, loop_started,
                   interrupted, inf_error, exit_code>>
    /\ UNCHANGED <<srv_vars, fs_vars>>
    /\ UNCHANGED call

\* ModelManager(args.model_path, args.mnist): the parser defines no --mnist,
\* so evaluating args.mnist raises AttributeError; main prints it, returns 1.
MainArgsError ==
    /\ inf_pc = "main_try"
    /\ inf_pc' = "done"
    /\ inf_error' = "AttributeError"
    /\ exit_code' = 1
    /\ UNCHANGED <<entry, file_at_start, last_modified, current_modified,
                   model_round, observed, loads, cap_id, cap_opened, released,
                   reconnects, loop_started, interrupted>>
    /\ UNCHANGED <<srv_vars, fs_vars>>
    /\ UNCHANGED call

\* KeyboardInterrupt inside main's try block: "Exiting...", return 0.
MainInterrupt ==
    /\ inf_pc = "main_try"
    /\ inf_pc' = "done"
    /\ interrupted' = TRUE
    /\ exit_code' = 0
    /\ UNCHANGED <<entry, file_at_start, last_modified, current_modified,
                   model_round, observed, loads, cap_id, cap_opened, released,
                   reconnects, loop_started, inf_error>>
    /\ UNCHANGED <<srv_vars, fs_vars>>
    /\ UNCHANGED call

\* ModelManager(model_path) called directly: __init__ sets last_modified to
\* None and calls load_model.
StartDirect ==
    /\ inf_pc = "idle"
    /\ inf_pc' = "ctor_stat"
    /\ entry' = "direct"
    /\ last_modified' = None
    /\ UNCHANGED <<file_at_start, current_modified, model_round, observed, loads, cap_id,
                   cap_opened, released, reconnects, loop_started, interrupted,
                   inf_error, exit_code>>
    /\ UNCHANGED <<srv_vars, fs_vars>>
    /\ UNCHANGED call

\* load_model up to the comparison: exists(), getmtime(), last_modified !=
\* current_modified.  The local current_modified is live only up to the end
\* of the call.
LoadModelStat(load_pc, return_pc) ==
    /\ latest.exists
    /\ IF ModelChanged(last_modified, latest.mtime)
          THEN /\ current_modified' = latest.mtime
               /\ inf_pc' = load_pc
          ELSE /\ current_modified' = None
               /\ inf_pc' = return_pc
    /\ UNCHANGED <<inf_error, released>>

\* load_model from torch.load on: the file is read as it is at this moment;
\* a payload that is not whole cannot be deserialised and torch.load raises.
LoadModelPayload(return_pc) ==
    /\ Complete(latest)
    /\ model_round' = latest.payload.model_state_dict
    /\ last_modified' = current_modified
    /\ current_modified' = None
    /\ loads' = Append(loads, latest.payload.round)
    /\ inf_pc' = return_pc
    /\ UNCHANGED <<inf_error, released>>

CtorStat ==
    /\ inf_pc = "ctor_stat"
    /\ \/ LoadModelStat("ctor_load", "open_stream")
       \/ /\ ~latest.exists
          /\ RaiseInCtor("FileNotFoundError")
          /\ UNCHANGED current_modified
    /\ UNCHANGED <<entry, file_at_start, last_modified, model_round, observed,
                   loads, cap_id, cap_opened, reconnects, loop_started,
                   interrupted, exit_code>>
    /\ UNCHANGED <<srv_vars, fs_vars>>
    /\ UNCHANGED call

CtorLoad ==
    /\ inf_pc = "ctor_load"
    /\ observed' = Read(latest)
    /\ \/ LoadModelPayload("open_stream")
       \/ /\ ~Complete(latest)
          /\ RaiseInCtor("LoadError")
          /\ current_modified' = None
          /\ UNCHANGED <<model_round, last_modified, loads>>
    /\ UNCHANGED <<entry, file_at_start, cap_id, cap_opened, reconnects,
                   loop_started, interrupted, exit_code>>
    /\ UNCHANGED <<srv_vars, fs_vars>>
    /\ UNCHANGED call

\* run_inference: cap = cv2.VideoCapture(rtsp_url); not opened raises
\* RuntimeError before the try block.
OpenStream ==
    /\ inf_pc = "open_stream"
    /\ cap_id' = 1
    /\ \E opened \in BOOLEAN :
          /\ cap_opened' = opened
          /\ IF opened
                THEN /\ inf_pc' = "read"
                     /\ loop_started' = TRUE
                     /\ UNCHANGED inf_error
                ELSE /\ inf_pc' = "raised"
                     /\ inf_error' = "RuntimeError"
                     /\ UNCHANGED loop_started
    /\ UNCHANGED <<entry, file_at_start, last_modified, current_modified,
                   model_round, observed, loads, released, reconnects,
                   interrupted, exit_code>>
    /\ UNCHANGED <<srv_vars, fs_vars>>
    /\ UNCHANGED call

\* ret, frame = cap.read(); a capture that is not opened delivers no frame.
ReadFrame ==
    /\ inf_pc = "read"
    /\ \E ret \in (IF cap_opened THEN BOOLEAN ELSE {FALSE}) :
          IF ret THEN inf_pc' = "get_model"
                 ELSE /\ reconnects < MaxReconnects
                      /\ inf_pc' = "reconnect"
    /\ UNCHANGED <<entry, file_at_start, last_modified, current_modified,
                   model_round, observed, loads, cap_id, cap_opened, released,
                   reconnects, loop_started, interrupted, inf_error, exit_code>>
    /\ UNCHANGED <<srv_vars, fs_vars>>
    /\ UNCHANGED call

\* not ret: cap.release(); time.sleep(1); cap = cv2.VideoCapture(rtsp_url);
\* continue.
Reconnect ==
    /\ inf_pc = "reconnect"
    /\ released' = released \cup {cap_id}
    /\ cap_id' = cap_id + 1
    /\ cap_opened' \in BOOLEAN
    /\ reconnects' = reconnects + 1
    /\ inf_pc' = "read"
    /\ UNCHANGED <<entry, file_at_start, last_modified, current_modified,
                   model_round, observed, loads, loop_started, interrupted,
                   inf_error, exit_code>>
    /\ UNCHANGED <<srv_vars, fs_vars>>
    /\ UNCHANGED call

\* model_manager.get_model(): load_model up to the comparison.
GetModel ==
    /\ inf_pc = "get_model"
    /\ \/ LoadModelStat("reload", "preprocess")
       \/ /\ ~latest.exists
          /\ RaiseInLoop("FileNotFoundError")
          /\ UNCHANGED current_modified
    /\ UNCHANGED <<entry, file_at_start, last_modified, model_round, observed,
                   loads, cap_id, cap_opened, reconnects, loop_started,
                   interrupted, exit_code>>
    /\ UNCHANGED <<srv_vars, fs_vars>>
    /\ UNCHANGED call

\* model_manager.get_model(): the reload of a changed file.
Reload ==
    /\ inf_pc = "reload"
    /\ observed' = Read(latest)
    /\ \/ LoadModelPayload("preprocess")
       \/ /\ ~Complete(latest)
          /\ RaiseInLoop("LoadError")
          /\ current_modified' = None
          /\ UNCHANGED <<model_round, last_modified, loads>>
    /\ UNCHANGED <<entry, file_at_start, cap_id, cap_opened, reconnects,
                   loop_started, interrupted, exit_code>>
    /\ UNCHANGED <<srv_vars, fs_vars>>
    /\ UNCHANGED call

\* processor.preprocess_frame(frame): InferenceProcessor.__init__ never sets
\* use_mnist, so reading self.use_mnist raises AttributeError.
PreprocessFrame ==
    /\ inf_pc = "preprocess"
    /\ RaiseInLoop("AttributeError")
    /\ UNCHANGED <<entry, file_at_start, last_modified, current_modified,
                   model_round, observed, loads, cap_id, cap_opened, reconnects,
                   loop_started, interrupted, exit_code>>
    /\ UNCHANGED <<srv_vars, fs_vars>>
    /\ UNCHANGED call

LoopPositions == {"read", "reconnect", "get_model", "reload", "preprocess"}

\* KeyboardInterrupt inside run_inference's try block: "Stopping
\* inference...", the finally block releases cap, run_inference returns.
KeyboardInterrupt ==
    /\ inf_pc \in LoopPositions
    /\ interrupted' = TRUE
    /\ released' = released \cup {cap_id}
    /\ inf_pc' = "done"
    /\ UNCHANGED <<entry, file_at_start, last_modified, current_modified,
                   model_round, observed, loads, cap_id, cap_opened, reconnects,
                   loop_started, inf_error, exit_code>>
    /\ UNCHANGED <<srv_vars, fs_vars>>
    /\ UNCHANGED call

\* ---------------------------------------------- functions called on their own
RECURSIVE SeqSum(_)
SeqSum(s) == IF s = <<>> THEN 0 ELSE s[1] + SeqSum(Tail(s))

\* InferenceProcessor.labels and labels.get(prediction, "Unknown").
Labels == <<"airplane", "automobile", "bird", "cat", "deer",
            "dog", "frog", "horse", "ship", "truck">>
LabelOf(prediction) ==
    IF prediction + 1 \in DOMAIN Labels THEN Labels[prediction + 1] ELSE "Unknown"

\* torch.max(probabilities, 1): the largest value and the index of its first
\* occurrence; class k is entry k + 1 of the sequence.
TorchMax(probabilities) ==
    LET value == CHOOSE v \in {probabilities[i] : i \in DOMAIN probabilities} :
                     \A i \in DOMAIN probabilities : probabilities[i] <= v
        index == CHOOSE i \in DOMAIN probabilities :
                     /\ probabilities[i] = value
                     /\ \A j \in DOMAIN probabilities :
                            probabilities[j] = value => i <= j
    IN  [confidence |-> value, prediction |-> index - 1]

\* get_prediction from torch.max on; probabilities is F.softmax(outputs), in
\* units of 1/ProbScale, and so is confidence_threshold.
GetPredictionInclusive(probabilities, confidence_threshold) ==
    LET m == TorchMax(probabilities)
    IN  IF m.confidence <= confidence_threshold
           THEN <<"Low confidence", 0>>
           ELSE <<LabelOf(m.prediction), m.confidence>>

GetPrediction(probabilities, confidence_threshold) ==
    LET m == TorchMax(probabilities)
    IN  IF m.confidence < confidence_threshold
           THEN <<"Low confidence", 0>>
           ELSE <<LabelOf(m.prediction), m.confidence>>

\* The values F.softmax can return: non-negative entries that sum to 1.
ProbabilityVectors ==
    {p \in [1..NumClasses -> 0..ProbScale] : SeqSum(p) = ProbScale}

CallGetPrediction ==
    /\ call = NoCall
    /\ \E p \in ProbabilityVectors, t \in 0..ProbScale :
          call' = [fn |-> "get_prediction",
                   input |-> [probabilities |-> p, confidence_threshold |-> t],
                   output |-> GetPrediction(p, t)]
    /\ UNCHANGED <<srv_vars, fs_vars, inf_vars>>

\* A float quotient n / d (d > 0), kept exact as a fraction in lowest terms.
RECURSIVE GCD(_, _)
GCD(a, b) == IF b = 0 THEN a ELSE GCD(b, a % b)
Frac(n, d) == IF n = 0 THEN <<0, 1>> ELSE <<n \div GCD(n, d), d \div GCD(n, d)>>

Classes == 0..(NumClasses - 1)

\* An evaluation set as test() sees it: per sample the ground-truth label
\* and the class the model predicts.
EvaluationSets ==
    UNION {[1..k -> [label : Classes, predicted : Classes]] : k \in 0..MaxSamples}

ClassTotal(samples, c) ==
    Cardinality({i \in DOMAIN samples : samples[i].label = c})
ClassCorrect(samples, c) ==
    Cardinality({i \in DOMAIN samples :
                    samples[i].label = c /\ samples[i].predicted = c})
PredictionDistribution(samples, c) ==
    Cardinality({i \in DOMAIN samples : samples[i].predicted = c})

\* test(): the bookkeeping and the returned metrics dictionary.  The whole
\* set fits one batch of 64, so len(testloader) is 0 for the empty set and 1
\* otherwise; running_loss / len(testloader) divides Python numbers and
\* raises on 0 (the loss value itself is not modelled).  A class without
\* samples gets accuracy 0.
TestMetrics(samples) ==
    IF Len(samples) = 0
       THEN [error |-> "ZeroDivisionError", metrics |-> <<>>]
       ELSE [error |-> "none",
             metrics |->
               [accuracy |-> Frac(100 * Cardinality({i \in DOMAIN samples :
                                         samples[i].label = samples[i].predicted}),
                                  Len(samples)),
                prediction_distribution |->
                    [c \in Classes |-> PredictionDistribution(samples, c)],
                class_acc |->
                    [c \in Classes |->
                        IF ClassTotal(samples, c) > 0
                           THEN Frac(100 * ClassCorrect(samples, c),
                                     ClassTotal(samples, c))
                           ELSE Frac(0, 1)]]]

CallTest ==
    /\ call = NoCall
    /\ \E samples \in EvaluationSets :
          call' = [fn |-> "test", input |-> samples, output |-> TestMetrics(samples)]
    /\ UNCHANGED <<srv_vars, fs_vars, inf_vars>>

\* The (num_examples, metrics) lists weighted_average can be given.
MetricsLists ==
    UNION {[1..k -> [num_examples : 0..MaxExamples, accuracy : 0..MaxAccuracy]] :
              k \in 1..MaxUpdates}

\* weighted_average: sum(num_examples * accuracy) / sum(num_examples); the
\* division is Python's and raises when the divisor is 0.
WeightedAverageUnweighted(metrics) ==
    LET accuracies == [i \in DOMAIN metrics |-> metrics[i].accuracy]
        examples == [i \in DOMAIN metrics |-> metrics[i].num_examples]
    IN  IF SeqSum(examples) = 0
           THEN [error |-> "ZeroDivisionError", accuracy |-> Frac(0, 1)]
           ELSE [error |-> "none",
                 accuracy |-> Frac(SeqSum(accuracies), SeqSum(examples))]

WeightedAverage(metrics) ==
    LET accuracies == [i \in DOMAIN metrics |->
                          metrics[i].num_examples * metrics[i].accuracy]
        examples == [i \in DOMAIN metrics |-> metrics[i].num_examples]
    IN  IF SeqSum(examples) = 0
           THEN [error |-> "ZeroDivisionError", accuracy |-> Frac(0, 1)]
           ELSE [error |-> "none",
                 accuracy |-> Frac(SeqSum(accuracies), SeqSum(examples))]

CallWeightedAverage ==
    /\ call = NoCall
    /\ \E metrics \in MetricsLists :
          call' = [fn |-> "weighted_average", input |-> metrics,
                   output |-> WeightedAverage(metrics)]
    /\ UNCHANGED <<srv_vars, fs_vars, inf_vars>>

Next ==
    \/ FitRound
    \/ ReturnNone
    \/ Evaluate
    \/ OpenForWrite
    \/ WriteChunk
    \/ StorageFail
    \/ StartMain
    \/ MainArgsError
    \/ MainInterrupt
    \/ StartDirect
    \/ CtorStat
    \/ CtorLoad
    \/ OpenStream
    \/ ReadFrame
    \/ Reconnect
    \/ GetModel
    \/ Reload
    \/ PreprocessFrame
    \/ KeyboardInterrupt

Spec == Init /\ [][Next]_vars

\* The functions applied to inputs drawn from bounded sets, the two programs
\* not started.
FunctionInit ==
    /\ ProgramInit
    /\ rounds = 1
    /\ call = NoCall

FunctionNext ==
    \/ CallGetPrediction
    \/ CallTest
    \/ CallWeightedAverage

FunctionSpec == FunctionInit /\ [][FunctionNext]_vars

\* ------------------------------------------------------------------ claims
Last(s) == s[Len(s)]
Consecutive(s) == \A i \in 1..(Len(s) - 1) : s[i + 1] = s[i] + 1

\* C1 (atomic publish): every payload the reader's torch.load reads from
\* model_latest.pt is the whole payload of exactly one round, never a part
\* of one.  The code overwrites the file in place, so a load that runs
\* during the save reads a partial payload.
C1_AtomicPublish ==
    observed.exists =>
        /\ Complete(observed)
        /\ observed.payload = Checkpoint(observed.payload.round)

C3_RoundKeyedBeforeLatest ==
    latest.exists => Complete(round_files[latest.payload.round])

\* The latest alias holds the whole round-2 checkpoint.
C3_Witness ==
    /\ Complete(latest)
    /\ latest.payload.round = 2
    /\ Complete(round_files[2])

\* C4 (no partial publish): once a save has failed with a storage error,
\* model_latest.pt still holds the whole checkpoint of the round published
\* before.  A failure during the in-place write of the latest file leaves a
\* partial payload of the new round there instead.
C4_NoPartialPublish ==
    (srv_error = "StorageWriteError" /\ published # <<>>) =>
        /\ Complete(latest)
        /\ latest.payload = Checkpoint(Last(published))

\* C5 (insufficient clients): while the latest aggregate_fit attempt had
\* fewer than MinClients results, no step writes the round-keyed file or the
\* latest alias for its round, and no step advances the round number (the
\* next attempt reuses it).
C5_InsufficientClients ==
    [][ (server_round > 0 /\ results < MinClients) =>
            /\ ~round_files'[server_round].exists
            /\ ~(latest'.exists /\ latest'.payload.round = server_round)
            /\ server_round' = server_round ]_vars

\* C6 (evaluation failure degrades gracefully): once aggregate_fit has ended
\* for a round whose evaluation failed, that round's checkpoint is written
\* whole, was published as latest, and carries no evaluation result.
C6_EvalFailureStillPublishes ==
    \A r \in eval_failed :
        srv_pc \in {"waiting", "crashed"} =>
            /\ Complete(round_files[r])
            /\ round_files[r].payload.metrics \notin {Test(w) : w \in 0..MaxRounds}
            /\ \E i \in 1..Len(published) : published[i] = r

\* C7 (checkpoint monotonicity): the round numbers written to the
\* round-keyed files and to the latest alias are strictly increasing and
\* consecutive.
C7_Monotonic ==
    /\ Consecutive(saved)
    /\ Consecutive(published)

\* C8 (stream resilience): once the loop has started, run_inference ends
\* only on a stop signal; in particular a frame read successfully after
\* failed reads is processed and the loop goes on.
C8_StreamResilience ==
    (loop_started /\ inf_pc \in {"done", "raised"}) => interrupted

\* C9: started with the model file present, main returns only when
\* interrupted, and then with exit code 0.
C9_MainRunsUntilInterrupted ==
    (entry = "main" /\ file_at_start = "complete" /\ inf_pc = "done") =>
        /\ interrupted
        /\ exit_code = 0

\* C10 (missing model is fatal): started with the model file missing, main
\* ends with the not-found error raised by ModelManager's construction, a
\* non-zero exit code, no stream opened and no loop iteration.
C10_MissingModelFatal ==
    (entry = "main" /\ file_at_start = "missing" /\ inf_pc = "done"
        /\ ~interrupted) =>
        /\ inf_error = "FileNotFoundError"
        /\ exit_code > 0
        /\ cap_id = 0
        /\ ~loop_started

\* C11 (graceful release): whenever run_inference has ended after its loop
\* started (keyboard interrupt, or an exception raised inside the loop such
\* as a failed reload), every VideoCapture it created, the one current at
\* that moment and any reopened by the reconnect path included, has been
\* released.
C11_GracefulRelease ==
    (loop_started /\ inf_pc \in {"done", "raised"}) =>
        /\ cap_id \in released
        /\ released = 1..cap_id

\* A reload failed inside the loop while cap was a handle reopened by the
\* reconnect path, and that handle is released.
C11_Witness ==
    /\ inf_pc = "raised"
    /\ inf_error = "LoadError"
    /\ loop_started
    /\ reconnects >= 1
    /\ cap_id = reconnects + 1
    /\ cap_id \in released

\* C12 (confidence gating): get_prediction returns ("Low confidence", 0.0)
\* when the top class probability is strictly below the threshold, and
\* otherwise the label of a top class with its raw probability; a
\* probability equal to the threshold is reported as it is.
TopProbability(p) ==
    CHOOSE v \in {p[i] : i \in DOMAIN p} : \A i \in DOMAIN p : p[i] <= v

C12_ConfidenceGating ==
    call.fn = "get_prediction" =>
        LET p == call.input.probabilities
            t == call.input.confidence_threshold
        IN  IF TopProbability(p) < t
               THEN call.output = <<"Low confidence", 0>>
               ELSE \E i \in DOMAIN p :
                       /\ p[i] = TopProbability(p)
                       /\ call.output = <<Labels[i], p[i]>>

\* A top probability equal to the threshold is reported with its label.
C12_Witness ==
    /\ call.fn = "get_prediction"
    /\ TopProbability(call.input.probabilities) = call.input.confidence_threshold
    /\ call.output[1] \in {Labels[i] : i \in 1..NumClasses}
    /\ call.output[2] = call.input.confidence_threshold

\* C13 (zero-sample class): test() completes without a divide-by-zero
\* fault on every evaluation set, and in the metrics it returns a class
\* with no ground-truth samples is reported differently from a class that
\* has samples and none of them predicted correctly.
C13_ZeroSampleClass ==
    call.fn = "test" =>
        /\ call.output.error = "none"
        /\ \A c, d \in Classes :
              ( /\ ClassTotal(call.input, c) = 0
                /\ ClassTotal(call.input, d) > 0
                /\ ClassCorrect(call.input, d) = 0 ) =>
              call.output.metrics.class_acc[c] # call.output.metrics.class_acc[d]

\* C14 (aggregation weighting): the result is sum(n_i * x_i) / sum(n_i);
\* it is the same for every permutation of the entries, and when all
\* example counts are equal and positive it is the unweighted mean of the
\* x_i.  Arithmetic is exact here; the code's floats round.
Injections(k) == {f \in [1..k -> 1..k] : \A i, j \in 1..k : f[i] = f[j] => i = j}
Permuted(s, f) == [i \in DOMAIN s |-> s[f[i]]]
Counts(metrics) == [i \in DOMAIN metrics |-> metrics[i].num_examples]
Values(metrics) == [i \in DOMAIN metrics |-> metrics[i].accuracy]

C14_AggregationWeighting ==
    (call.fn = "weighted_average" /\ SeqSum(Counts(call.input)) > 0) =>
        /\ call.output.error = "none"
        /\ \A f \in Injections(Len(call.input)) :
              WeightedAverage(Permuted(call.input, f)) = call.output
        /\ (\A i \in DOMAIN call.input :
                call.input[i].num_examples = call.input[1].num_examples) =>
              call.output.accuracy =
                  Frac(SeqSum(Values(call.input)), Len(call.input))

\* Three entries with equal counts above 1 and different values were
\* averaged.
C14_Witness ==
    /\ call.fn = "weighted_average"
    /\ Len(call.input) >= 3
    /\ \A i \in DOMAIN call.input : call.input[i].num_examples = 2
    /\ call.input[1].accuracy # call.input[2].accuracy
    /\ call.output.error = "none"
    /\ call.output.accuracy = Frac(SeqSum(Values(call.input)), Len(call.input))

\* C15 (zero-weight rejection): when every entry has example count 0 the
\* aggregation fails with the dedicated invalid-update error.
C15_ZeroWeightRejection ==
    (call.fn = "weighted_average" /\ SeqSum(Counts(call.input)) = 0) =>
        call.output.error = "InvalidUpdateError"

\* C16: the metrics stored in the checkpoint of every published round are
\* the evaluation of the parameters stored in the same checkpoint.
C16_MetricsOfSavedParameters ==
    \A i \in 1..Len(published) :
        LET payload == round_files[published[i]].payload
        IN  payload.metrics = Test(payload.model_state_dict)

\* C17 (order within an iteration): the version check, with any reload,
\* comes before the frame acquisition, so wherever this iteration's
\* cap.read() has returned, successfully or not, its get_model has returned
\* too.
FrameAcquired == inf_pc \in {"get_model", "reload", "reconnect", "preprocess"}
VersionChecked == inf_pc = "preprocess"

C17_CheckBeforeFrame ==
    FrameAcquired => VersionChecked

\* C18 as stated: when nothing was published since the last successful load
\* (the latest file is whole and holds the round loaded last), get_model
\* returns without reading the payload and leaves model and marker as they
\* are; and a reload that fails leaves the marker unchanged.
C18_ReloadOnlyOnChange ==
    [][ /\ ( /\ inf_pc = "get_model"
              /\ inf_pc' \notin {"get_model", "done"}
              /\ loads # <<>>
              /\ Complete(latest)
              /\ latest.payload.round = Last(loads) ) =>
                  /\ inf_pc' = "preprocess"
                  /\ UNCHANGED <<model_round, last_modified, observed, loads>>
        /\ (inf_error = "none" /\ inf_error' = "LoadError") =>
                  UNCHANGED <<model_round, last_modified>> ]_vars

\* C18 amended: when the modification time of the latest file equals the
\* recorded marker, get_model returns without reading the payload and
\* leaves model and marker as they are; and a reload that fails leaves the
\* marker unchanged.
C18_ReloadOnlyOnMarkerChange ==
    [][ /\ ( /\ inf_pc = "get_model"
              /\ inf_pc' \notin {"get_model", "done"}
              /\ latest.exists
              /\ latest.mtime = last_modified ) =>
                  /\ inf_pc' = "preprocess"
                  /\ UNCHANGED <<model_round, last_modified, observed, loads>>
        /\ (inf_error = "none" /\ inf_error' = "LoadError") =>
                  UNCHANGED <<model_round, last_modified>> ]_vars

\* get_model returned to the loop without a reload: the only load is the
\* constructor's and its marker is the file's modification time.
C18_Witness ==
    /\ inf_pc = "preprocess"
    /\ loads = <<1>>
    /\ model_round = 1
    /\ last_modified = latest.mtime
    /\ observed.payload.round = 1

\* C19 (no permanently missed publish): a model whose recorded marker is
\* the latest file's modification time holds the round that file holds, the
\* rounds loaded never go back, and the loop does not end, other than on a
\* stop signal, on a round older than the last one published: once the
\* publishes have stopped its model comes to equal the last published round.
NeverOlderThanMarker ==
    /\ (loads # <<>> /\ Complete(latest) /\ last_modified = latest.mtime) =>
            model_round = latest.payload.round
    /\ \A i \in 1..(Len(loads) - 1) : loads[i] <= loads[i + 1]

PublishesStopped ==
    /\ srv_pc = "waiting"
    /\ server_round = rounds
    /\ published # <<>>
    /\ Complete(latest)

C19_NoMissedPublish ==
    /\ NeverOlderThanMarker
    /\ (loop_started /\ PublishesStopped /\ inf_pc = "raised") =>
            model_round = Last(published)
====
